---- MODULE Spec2Model ----
(***************************************************************************)
(* boekhouder: the import run (cmd.py cmd_import), the rule engine         *)
(* (importer.py Filter), the handler hierarchy (importer.py Handler,       *)
(* Categorize, Membership) and the repository (data.py Repository).        *)
(*                                                                         *)
(* Amounts are Decimal values with two decimals; they are integers in      *)
(* cents here.  Dates are day numbers.  A file of transactions/ is named   *)
(* by the three parts of "<date>_<iii>_<suffix>".  An exception is a       *)
(* record with the single field "raised".                                  *)
(***************************************************************************)
EXTENDS Integers, Sequences, FiniteSets, TLC

VARIABLES
    config,         \* Repository.config: [filters, accounts], from config.yaml
    xl_txns,        \* the records of extracts/, in load order
    files,          \* transactions/: file name -> the entries printed to it
    ledger,         \* ledger.beancount: the names it includes
    today,          \* datetime.today()
    op,             \* the operation that ran last
    dry_run,        \* the last import's --dry-run
    status,         \* how the last import ended
    handled,        \* the last import's loop: <<record, handler>> per iteration
    new_txns,       \* the last import's new_txns
    base,           \* the last import's base: [date, seq]
    h_call,         \* a call of handler.handle(repo, txn) and its result
    t_call          \* a call of filter.test(txn) and its result

vars == <<config, xl_txns, files, ledger, today, op, dry_run, status, handled,
          new_txns, base, h_call, t_call>>

run_vars == <<config, xl_txns, files, ledger, today, op, dry_run, status,
              handled, new_txns, base>>

(***************************************************************************)
(* Bounds of the model.                                                    *)
(***************************************************************************)
MaxExtracts == 3
MaxDay == 3

(***************************************************************************)
(* data.py: XlTransaction, and importer.py: the values of the rule engine. *)
(***************************************************************************)
XlTransaction(account, booking_date, reference, description, amount, currency, counterparty_account, counterparty_name, message) ==
    [account |-> account, booking_date |-> booking_date,
     reference |-> reference, description |-> description,
     amount |-> amount, currency |-> currency,
     counterparty_account |-> counterparty_account,
     counterparty_name |-> counterparty_name, message |-> message]

\* A matcher of a rule: a str, a compiled re2 pattern (given by the set of
\* strings item.match accepts), or a YAML value of another type.
Str(s) == [type |-> "str", value |-> s]
Regexp(lang) == [type |-> "regex", lang |-> lang]
Other == [type |-> "other"]

NoReplacements == [f \in {} |-> 0]

\* Handler.__init__, Categorize.__init__, Membership.__init__
HandlerObj(cls, replacements, category, member, monthly_cost) ==
    [cls |-> cls, replacements |-> replacements, category |-> category,
     member |-> member, monthly_cost |-> monthly_cost]

DefaultMonthlyCost == 2500

DEFAULT_HANDLER == HandlerObj("Handler", NoReplacements, "", "", 0)

\* Filter.__init__
FilterObj(name, kind, message, account, handler) ==
    [name |-> name, kind |-> kind, message |-> message, account |-> account,
     handler |-> handler]

(***************************************************************************)
(* importer.py: Filter._test1 and Filter.test.                             *)
(***************************************************************************)
item_matches(item, field) ==
    \/ item.type = "str" /\ item.value = field
    \/ item.type = "regex" /\ field \in item.lang

RECURSIVE test1_from(_, _, _)
test1_from(field, pattern, i) ==
    IF i > Len(pattern) THEN FALSE
    ELSE IF item_matches(pattern[i], field) THEN TRUE
    ELSE test1_from(field, pattern, i + 1)

test1_empty_fails(field, pattern) ==
    test1_from(field, pattern, 1)

_test1(field, pattern) ==
    IF Len(pattern) = 0 THEN TRUE ELSE test1_from(field, pattern, 1)

test_swapped(self, txn) ==
    /\ _test1(txn.message, self.message)
    /\ _test1(txn.counterparty_name, self.account)
    /\ _test1(txn.counterparty_account, self.name)
    /\ _test1(txn.description, self.kind)

test(self, txn) ==
    /\ _test1(txn.message, self.message)
    /\ _test1(txn.counterparty_account, self.account)
    /\ _test1(txn.counterparty_name, self.name)
    /\ _test1(txn.description, self.kind)

(***************************************************************************)
(* data.py: Repository.get_account; importer.py: the handlers.             *)
(***************************************************************************)
Raised(r) == "raised" \in DOMAIN r

get_account(repo, iban) ==
    IF iban \in DOMAIN repo.config.accounts
    THEN [value |-> repo.config.accounts[iban]]
    ELSE [raised |-> "KeyError"]

\* dataclasses.replace(txn, **changes)
replace(txn, changes) ==
    [f \in DOMAIN txn |-> IF f \in DOMAIN changes THEN changes[f] ELSE txn[f]]

source_type(self, txn) == IF txn.amount > 0 THEN "Income" ELSE "Expenses"

default_source(self, txn) ==
    CASE self.cls = "Categorize" -> self.category
      [] self.cls = "Membership" -> "Membership"
      [] OTHER -> "UnaccountedFunds"

Amount(number, currency) == [number |-> number, currency |-> currency]

Posting(account, units) == [account |-> account, units |-> units]

\* Handler.handle with the metadata taken from the replaced record
Handler_handle_meta_late(self, repo, txn) ==
    LET t == replace(txn, self.replacements)
        acct == get_account(repo, t.account)
    IN  IF Raised(acct) THEN acct
        ELSE [date |-> t.booking_date,
              meta |-> [reference |-> t.reference],
              flag |-> IF self.cls = "Handler" THEN "?" ELSE "!",
              payee |-> t.counterparty_name,
              narration |-> t.message,
              tags |-> {},
              links |-> {},
              postings |-> <<
                  Posting(acct.value, Amount(t.amount, t.currency)),
                  Posting(source_type(self, t) \o ":" \o default_source(self, t),
                          Amount(-t.amount, t.currency)) >>]

\* Handler.handle with the second posting taken from the record as loaded
Handler_handle_stale_amount(self, repo, txn) ==
    LET t == replace(txn, self.replacements)
        acct == get_account(repo, t.account)
    IN  IF Raised(acct) THEN acct
        ELSE [date |-> t.booking_date,
              meta |-> [reference |-> txn.reference],
              flag |-> IF self.cls = "Handler" THEN "?" ELSE "!",
              payee |-> t.counterparty_name,
              narration |-> t.message,
              tags |-> {},
              links |-> {},
              postings |-> <<
                  Posting(acct.value, Amount(t.amount, t.currency)),
                  Posting(source_type(self, t) \o ":" \o default_source(self, t),
                          Amount(-txn.amount, txn.currency)) >>]

Handler_handle(self, repo, txn) ==
    LET meta == [reference |-> txn.reference]
        t == replace(txn, self.replacements)
        acct == get_account(repo, t.account)
    IN  IF Raised(acct) THEN acct
        ELSE [date |-> t.booking_date,
              meta |-> meta,
              flag |-> IF self.cls = "Handler" THEN "?" ELSE "!",
              payee |-> t.counterparty_name,
              narration |-> t.message,
              tags |-> {},
              links |-> {},
              postings |-> <<
                  Posting(acct.value, Amount(t.amount, t.currency)),
                  Posting(source_type(self, t) \o ":" \o default_source(self, t),
                          Amount(-t.amount, t.currency)) >>]

POS_1 == 1

\* Membership.handle firing on every amount of at least the fee
Membership_handle_at_least(self, repo, txn) ==
    IF self.monthly_cost > txn.amount
    THEN Handler_handle(DEFAULT_HANDLER, repo, txn)
    ELSE LET new_txn == Handler_handle(self, repo, txn)
         IN  IF Raised(new_txn) THEN new_txn
             ELSE [new_txn EXCEPT
                   !.tags = @ \cup {"membership"},
                   !.postings = @ \o <<
                       Posting("Assets:Membership",
                               Amount(POS_1, "MEMBERSHIP_MONTH")),
                       Posting("Liabilities:Members:" \o self.member,
                               Amount(-POS_1, "MEMBERSHIP_MONTH")) >>]

Membership_handle(self, repo, txn) ==
    IF self.monthly_cost # txn.amount
    THEN Handler_handle(DEFAULT_HANDLER, repo, txn)
    ELSE LET new_txn == Handler_handle(self, repo, txn)
         IN  IF Raised(new_txn) THEN new_txn
             ELSE [new_txn EXCEPT
                   !.tags = @ \cup {"membership"},
                   !.postings = @ \o <<
                       Posting("Assets:Membership",
                               Amount(POS_1, "MEMBERSHIP_MONTH")),
                       Posting("Liabilities:Members:" \o self.member,
                               Amount(-POS_1, "MEMBERSHIP_MONTH")) >>]

\* handler.handle(repo, txn), dispatched on the handler's class
handle(self, repo, txn) ==
    IF self.cls = "Membership"
    THEN Membership_handle(self, repo, txn)
    ELSE Handler_handle(self, repo, txn)

(***************************************************************************)
(* data.py: the repository.  ledger.beancount is the sorted list of        *)
(* include lines scan_beancount writes, one per file of transactions/: it  *)
(* is given by the set of the names it includes.                           *)
(***************************************************************************)
FileName(date, seq, suffix) == [date |-> date, seq |-> seq, suffix |-> suffix]

scan_beancount(fs) == DOMAIN fs

\* beancount.loader.load_file on ledger.beancount: the entries of the files
\* it includes, each with the parser's filename and lineno in its metadata.
load_file(led, fs) ==
    UNION { { [fs[n][i] EXCEPT !.meta =
                  [k \in DOMAIN fs[n][i].meta \cup {"filename", "lineno"} |->
                      IF k = "filename" THEN n
                      ELSE IF k = "lineno" THEN i
                      ELSE fs[n][i].meta[k]]] :
              i \in 1..Len(fs[n]) } :
            n \in led \cap DOMAIN fs }

\* set(repo.bc_txn_map): the references of the loaded entries.  Which entry
\* the map keeps for a reference that occurs twice is beancount's order of
\* the entries; cmd_import reads the values only for the verbose listing.
bc_txn_map_keys(bc_ledger) ==
    { d.meta["reference"] : d \in { e \in bc_ledger : "reference" \in DOMAIN e.meta } }

\* self.xl_txn_map[txn.reference] = txn, keeping the entry already there
setitem_keep_first(map, key, value) ==
    IF key \in DOMAIN map THEN map
    ELSE [k \in DOMAIN map \cup {key} |-> IF k = key THEN value ELSE map[k]]

\* self.xl_txn_map[txn.reference] = txn
setitem(map, key, value) ==
    [k \in DOMAIN map \cup {key} |-> IF k = key THEN value ELSE map[k]]

RECURSIVE load_extracts_from(_, _, _)
load_extracts_from(txns, i, map) ==
    IF i > Len(txns) THEN map
    ELSE load_extracts_from(txns, i + 1,
             IF txns[i].reference # ""
             THEN setitem(map, txns[i].reference, txns[i])
             ELSE map)

\* Repository.load_extracts: xl_txn_map
load_extracts(txns) == load_extracts_from(txns, 1, [k \in {} |-> 0])

\* Repository.__init__ and load_extracts, as cmd_import starts
Repository(cfg, fs, txns) ==
    [config |-> cfg,
     ledger |-> scan_beancount(fs),
     bc_txn_map |-> bc_txn_map_keys(load_file(scan_beancount(fs), fs)),
     xl_txns |-> txns,
     xl_txn_map |-> load_extracts(txns)]

(***************************************************************************)
(* cmd.py: cmd_import.                                                     *)
(***************************************************************************)
\* new_txn_ids without the ledger's references taken out
new_txn_ids_all(repo) == DOMAIN repo.xl_txn_map

new_txn_ids(repo) == DOMAIN repo.xl_txn_map \ repo.bc_txn_map

\* The orders in which the for loop may draw the elements of a set.
Orders(S) ==
    { o \in [1..Cardinality(S) -> S] :
        \A i, j \in 1..Cardinality(S) : o[i] = o[j] => i = j }

RECURSIVE select_from(_, _, _)
select_from(filters, txn, i) ==
    IF i > Len(filters) THEN [rule |-> 0, handler |-> DEFAULT_HANDLER]
    ELSE IF test(filters[i], txn)
         THEN [rule |-> i, handler |-> filters[i].handler]
         ELSE select_from(filters, txn, i + 1)

RECURSIVE select_last_from(_, _, _)
select_last_from(filters, txn, i) ==
    IF i < 1 THEN [rule |-> 0, handler |-> DEFAULT_HANDLER]
    ELSE IF test(filters[i], txn)
         THEN [rule |-> i, handler |-> filters[i].handler]
         ELSE select_last_from(filters, txn, i - 1)

\* the for/else over the rules without the break
select_handler_last(filters, txn) == select_last_from(filters, txn, Len(filters))

\* the for/else over repo.config["filters"]: the rule chosen (0: none) and
\* its handler
select_handler(filters, txn) == select_from(filters, txn, 1)

\* The loop over new_txn_ids, drawn in the order `order`, from its i-th
\* element on: the transactions appended, the handlers chosen, and the
\* exception that ended it, if one did.
RECURSIVE classify(_, _, _, _, _, _)
classify(repo, order, i, processed, txns, chosen) ==
    IF i > Len(order)
    THEN [new_txns |-> txns, handled |-> chosen, raised |-> "none"]
    ELSE LET txn == repo.xl_txn_map[order[i]]
         IN  IF txn.reference \in processed
             THEN classify(repo, order, i + 1, processed, txns, chosen)
             ELSE LET sel == select_handler(repo.config.filters, txn)
                      result == handle(sel.handler, repo, txn)
                      step == Append(chosen, [txn |-> txn, rule |-> sel.rule,
                                              handler |-> sel.handler])
                  IN  IF Raised(result)
                      THEN [new_txns |-> txns, handled |-> step,
                            raised |-> result.raised]
                      ELSE classify(repo, order, i + 1,
                                    processed \cup {txn.reference},
                                    Append(txns, result), step)

\* new_txns.sort(key=lambda txn: txn.date): a stable sort
RECURSIVE insert_by_date(_, _)
insert_by_date(sorted, txn) ==
    IF sorted = <<>> THEN <<txn>>
    ELSE IF sorted[Len(sorted)].date <= txn.date THEN Append(sorted, txn)
    ELSE Append(insert_by_date(SubSeq(sorted, 1, Len(sorted) - 1), txn),
                sorted[Len(sorted)])

RECURSIVE sort_from(_, _, _)
sort_from(txns, i, sorted) ==
    IF i > Len(txns) THEN sorted
    ELSE sort_from(txns, i + 1, insert_by_date(sorted, txns[i]))

sort_by_date(txns) == sort_from(txns, 1, <<>>)

\* The suffixes of the files of transactions/.
Suffixes == {"auto.beancount", "manual.beancount", "notes.beancount"}

\* glob.glob(base + "_*") looking only for the automatic file
glob_auto(names, date, i) ==
    { n \in { FileName(date, i, s) : s \in {"auto.beancount"} } : n \in names }

\* glob.glob(base + "_*")
glob(names, date, i) ==
    { n \in { FileName(date, i, s) : s \in Suffixes } : n \in names }

RangeStop == 1000

\* for i in range(1, 1000): ... break; else: the first i of lo..hi, in the
\* loop's order, for which glob finds no file, or 0 when there is none (the
\* loop ends without a break).  The range is searched by halves, the lower
\* half first.
RECURSIVE allocate_in(_, _, _, _)
allocate_in(names, date, lo, hi) ==
    IF lo > hi THEN 0
    ELSE IF lo = hi THEN (IF glob(names, date, lo) = {} THEN lo ELSE 0)
    ELSE LET mid == (lo + hi) \div 2
             first == allocate_in(names, date, lo, mid)
         IN  IF first # 0 THEN first
             ELSE allocate_in(names, date, mid + 1, hi)

allocate(fs, date) ==
    LET names == DOMAIN fs
    IN  allocate_in(names, date, 1, RangeStop - 1)

\* txn.flag == "!" taken for the flag of the default handler
is_auto_default_flag(txn) == txn.flag = "?"

\* txn.flag == "!"
is_auto(txn) == txn.flag = "!"

auto_entries(txns) == SelectSeq(txns, is_auto)

manual_entries(txns) == SelectSeq(txns, LAMBDA txn : ~is_auto(txn))

\* with open(name, "wt") as f: print_entries(entries, file=f)
write(fs, name, entries) ==
    [n \in DOMAIN fs \cup {name} |-> IF n = name THEN entries ELSE fs[n]]

write_both(fs, date, i, txns) ==
    write(write(fs, FileName(date, i, "auto.beancount"), auto_entries(txns)),
          FileName(date, i, "manual.beancount"), manual_entries(txns))

\* transactions/ after a run that writes what it has gathered when the
\* account lookup fails
persist_partial(fs, date, slot, out, dry) ==
    IF dry \/ slot = 0 THEN fs
    ELSE write_both(fs, date, slot, sort_by_date(out.new_txns))

\* transactions/ after the run, slot being the number the loop over
\* range(1, 1000) ends on: the exception, the dry run and the loop that finds
\* no free number leave it as it is
persist(fs, date, slot, out, dry) ==
    IF out.raised # "none" THEN fs
    ELSE IF dry THEN fs
    ELSE IF slot = 0 THEN fs
    ELSE write_both(fs, date, slot, sort_by_date(out.new_txns))

\* how the run ends
outcome(slot, out, dry) ==
    IF out.raised # "none" THEN out.raised
    ELSE IF dry THEN "dry_run"
    ELSE IF slot = 0 THEN "no_slot"
    ELSE "written"

(***************************************************************************)
(* The values the model draws its inputs from.                             *)
(***************************************************************************)
Accounts == [a \in {"BE01"} |-> "Assets:Bank:Checking"]

AmountPool == {-1000, -1, 0, 1, 2499, 2500, 2501}

ReplacementPool ==
    { NoReplacements,
      [amount |-> 500],
      [amount |-> -2500],
      [currency |-> "USD"],
      [reference |-> "ZZ"],
      [account |-> "BE99"],
      [amount |-> 2500, currency |-> "MEMBERSHIP_MONTH"] }

HandlerPool ==
    {DEFAULT_HANDLER}
    \cup { HandlerObj("Handler", r, "", "", 0) : r \in ReplacementPool }
    \cup { HandlerObj("Categorize", r, "Food", "", 0) : r \in ReplacementPool }
    \cup { HandlerObj("Membership", r, "", "alice", DefaultMonthlyCost) :
             r \in ReplacementPool }

HandleRecordPool ==
    { XlTransaction(acc, 1, ref, "Overschrijving", amt, cur, "BE10", "alice",
                    "lidgeld") :
        acc \in {"BE01", "BE99"}, ref \in {"A1", ""}, amt \in AmountPool,
        cur \in {"EUR", "MEMBERSHIP_MONTH"} }

FieldPool == {"a", "ab"}

MatcherListPool ==
    { <<>>,
      <<Str("a")>>,
      <<Other, Regexp({"a", "ab"})>>,
      <<Str("b"), Regexp({"ab"})>> }

TestFilterPool ==
    { FilterObj(n, k, m, a, DEFAULT_HANDLER) :
        n \in MatcherListPool, k \in MatcherListPool,
        m \in MatcherListPool, a \in MatcherListPool }

TestRecordPool ==
    { XlTransaction("BE01", 1, "A1", d, 0, "EUR", ca, cn, m) :
        d \in FieldPool, ca \in FieldPool, cn \in FieldPool, m \in FieldPool }

\* The rows of the extracts.  R_a1 and R_a1_late share a reference; R_c3 is
\* booked on an account the registry does not know; R_blank has no reference.
R_a1 == XlTransaction("BE01", 2, "A1", "Overschrijving", 2500, "EUR",
                      "BE10", "alice", "lidgeld")
R_a1_late == XlTransaction("BE01", 1, "A1", "Overschrijving", 2501, "EUR",
                           "BE10", "alice", "lidgeld jan")
R_b2 == XlTransaction("BE01", 1, "B2", "Kaartbetaling", -1000, "EUR",
                      "BE20", "shop", "")
R_c3 == XlTransaction("BE99", 1, "C3", "Kaartbetaling", 0, "EUR",
                      "BE20", "shop", "")
R_blank == XlTransaction("BE01", 1, "", "Kosten", -1, "EUR", "", "", "")

RecordPool == {R_a1, R_a1_late, R_b2, R_c3, R_blank}

\* The rules of config.yaml.
F_never ==
    FilterObj(<<Str("nobody")>>, <<>>, <<>>, <<>>,
              HandlerObj("Categorize", NoReplacements, "Never", "", 0))
F_membership ==
    FilterObj(<<Str("alice")>>, <<>>, <<Regexp({"lidgeld", "lidgeld jan"})>>, <<>>,
              HandlerObj("Membership", NoReplacements, "", "alice",
                         DefaultMonthlyCost))
F_all ==
    FilterObj(<<>>, <<>>, <<>>, <<>>,
              HandlerObj("Categorize", [reference |-> "ZZ"], "Misc", "", 0))
F_shop ==
    FilterObj(<<>>, <<Str("Kaartbetaling")>>, <<>>, <<Str("BE21"), Str("BE20")>>,
              HandlerObj("Categorize", [account |-> "BE01"], "Groceries", "", 0))
F_plain ==
    FilterObj(<<>>, <<Str("Overschrijving")>>, <<Str("lidgeld jan")>>, <<>>,
              HandlerObj("Handler", [booking_date |-> 3], "", "", 0))

ConfigPool ==
    { [filters |-> f, accounts |-> Accounts] :
        f \in { <<>>,
                <<F_never, F_membership, F_all>>,
                <<F_never, F_all, F_membership>>,
                <<F_shop, F_plain>> } }

\* An entry of the ledger written by hand.
Entry(meta) ==
    [date |-> 1, meta |-> meta, flag |-> "*", payee |-> "", narration |-> "",
     tags |-> {}, links |-> {},
     postings |-> << Posting("Assets:Bank:Checking", Amount(100, "EUR")),
                     Posting("Income:Gifts", Amount(-100, "EUR")) >>]

\* transactions/ as the run finds it: empty; a file written by hand, with an
\* entry for A1, an entry no extract has and an entry without a reference;
\* the manual file of an earlier run of day 1 that took B2, its automatic
\* file removed.
Dir_empty == [n \in {} |-> <<>>]
Dir_hand ==
    [n \in {FileName(0, 0, "notes.beancount")} |->
        << Entry([reference |-> "A1"]), Entry([reference |-> "X9"]),
           Entry([f \in {} |-> ""]) >>]
Dir_earlier ==
    [n \in {FileName(1, 1, "manual.beancount")} |->
        << Handler_handle(DEFAULT_HANDLER, [config |-> [accounts |-> Accounts]],
                          R_b2) >>]

DirPool == {Dir_empty, Dir_hand, Dir_earlier}

\* transactions/ with the numbers of a day taken that are in 1..k and not
\* in `free`
Dir_taken(date, k, free) ==
    [n \in { FileName(date, i, "manual.beancount") : i \in (1..k) \ free } |-> <<>>]

SlotDirPool ==
    { Dir_taken(1, RangeStop - 2, {}),
      Dir_taken(1, RangeStop - 1, {}),
      Dir_taken(1, RangeStop - 1, {500, 700}) }

SlotExtractsPool == { <<R_b2>>, <<R_a1, R_b2>>, <<R_b2, R_c3>> }

RECURSIVE SeqsUpTo(_, _)
SeqsUpTo(S, n) ==
    IF n = 0 THEN {<<>>}
    ELSE LET shorter == SeqsUpTo(S, n - 1)
         IN  shorter \cup { Append(q, x) : q \in shorter, x \in S }

(***************************************************************************)
(* The states in which nothing of a part of the program has run.           *)
(***************************************************************************)
NoBase == [date |-> 0, seq |-> 0]

IdleRun ==
    /\ config = [filters |-> <<>>, accounts |-> Accounts]
    /\ xl_txns = <<>>
    /\ files = [n \in {} |-> <<>>]
    /\ ledger = {}
    /\ today = 1
    /\ op = "none"
    /\ dry_run = FALSE
    /\ status = "none"
    /\ handled = <<>>
    /\ new_txns = <<>>
    /\ base = NoBase

IdleHandle == h_call = [state |-> "none"]

IdleTest == t_call = [state |-> "none"]

(***************************************************************************)
(* A call of handler.handle(repo, txn) on any handler and record.          *)
(***************************************************************************)
InitHandle ==
    /\ IdleRun
    /\ IdleTest
    /\ \E self \in HandlerPool, txn \in HandleRecordPool :
          h_call = [state |-> "call", self |-> self,
                    repo |-> [config |-> [accounts |-> Accounts]], txn |-> txn]

CallHandle ==
    /\ h_call.state = "call"
    /\ h_call' = [state |-> "return", self |-> h_call.self,
                  repo |-> h_call.repo, txn |-> h_call.txn,
                  result |-> handle(h_call.self, h_call.repo, h_call.txn)]
    /\ UNCHANGED <<run_vars, t_call>>

NextHandle == CallHandle

SpecHandle == InitHandle /\ [][NextHandle]_vars

(***************************************************************************)
(* A call of filter.test(txn) on any rule and record.                      *)
(***************************************************************************)
InitTest ==
    /\ IdleRun
    /\ IdleHandle
    /\ \E self \in TestFilterPool, txn \in TestRecordPool :
          t_call = [state |-> "call", self |-> self, txn |-> txn]

CallTest ==
    /\ t_call.state = "call"
    /\ t_call' = [state |-> "return", self |-> t_call.self, txn |-> t_call.txn,
                  result |-> test(t_call.self, t_call.txn)]
    /\ UNCHANGED <<run_vars, h_call>>

NextTest == CallTest

SpecTest == InitTest /\ [][NextTest]_vars

(***************************************************************************)
(* The import runs of one day: boekhouder import, extracts arriving.       *)
(***************************************************************************)
Init ==
    /\ config \in ConfigPool
    /\ xl_txns = <<>>
    /\ files \in DirPool
    /\ ledger = scan_beancount(files)
    /\ today = 1
    /\ op = "none"
    /\ dry_run = FALSE
    /\ status = "none"
    /\ handled = <<>>
    /\ new_txns = <<>>
    /\ base = NoBase
    /\ IdleHandle
    /\ IdleTest

\* boekhouder import [--dry-run].  --verbose only chooses what the warning
\* about the ledger's references missing from the extracts prints.
cmd_import ==
    \E repo \in {Repository(config, files, xl_txns)},
       slot \in {allocate(files, today)},
       dry \in BOOLEAN :
        \E ids \in {new_txn_ids(repo)} :
            /\ op' = "import"
            /\ dry_run' = dry
            /\ IF ids = {}
               THEN /\ status' = "nothing"
                    /\ handled' = <<>>
                    /\ new_txns' = <<>>
                    /\ files' = files
               ELSE \E order \in Orders(ids) :
                        \E out \in {classify(repo, order, 1, {}, <<>>, <<>>)} :
                            /\ status' = outcome(slot, out, dry)
                            /\ handled' = out.handled
                            /\ new_txns' = IF out.raised # "none"
                                           THEN out.new_txns
                                           ELSE sort_by_date(out.new_txns)
                            /\ files' = persist(files, today, slot, out, dry)
            /\ base' = IF status' = "written"
                       THEN [date |-> today, seq |-> slot]
                       ELSE NoBase
            /\ ledger' = IF status' = "written"
                         THEN scan_beancount(files')
                         ELSE repo.ledger
            /\ UNCHANGED <<config, xl_txns, today, h_call, t_call>>

\* A file with one more row appears in extracts/.
add_extract ==
    /\ Len(xl_txns) < MaxExtracts
    /\ \E txn \in RecordPool : xl_txns' = Append(xl_txns, txn)
    /\ op' = "add_extract"
    /\ UNCHANGED <<config, files, ledger, today, dry_run, status, handled,
                   new_txns, base, h_call, t_call>>

\* The date changes.
next_day ==
    /\ today < MaxDay
    /\ today' = today + 1
    /\ UNCHANGED <<config, xl_txns, files, ledger, op, dry_run, status,
                   handled, new_txns, base, h_call, t_call>>

Next == cmd_import \/ add_extract

Spec == Init /\ [][Next]_vars

(***************************************************************************)
(* The import runs, over the days, in a transactions/ in which nearly all  *)
(* the numbers of day 1 are taken.                                         *)
(***************************************************************************)
InitSlots ==
    /\ config \in ConfigPool
    /\ xl_txns \in SlotExtractsPool
    /\ files \in SlotDirPool
    /\ ledger = scan_beancount(files)
    /\ today = 1
    /\ op = "none"
    /\ dry_run = FALSE
    /\ status = "none"
    /\ handled = <<>>
    /\ new_txns = <<>>
    /\ base = NoBase
    /\ IdleHandle
    /\ IdleTest

NextSlots == cmd_import \/ next_day

SpecSlots == InitSlots /\ [][NextSlots]_vars

(***************************************************************************)
(* Properties of the import runs, under Spec.                              *)
(***************************************************************************)
Range(q) == { q[i] : i \in 1..Len(q) }

\* The references of the entries of transactions/, and of the extracts.
LedgerRefs(fs) ==
    { e.meta["reference"] :
        e \in { x \in UNION { Range(fs[n]) : n \in DOMAIN fs } :
                  "reference" \in DOMAIN x.meta } }

ExtractRefs(txns) == { txns[i].reference : i \in 1..Len(txns) } \ {""}

\* What the handler chosen in an iteration of the loop returns.
Produced(h) == handle(h.handler, [config |-> config], h.txn)

Completed == status \in {"written", "dry_run", "no_slot"}

Matching(txn) == { i \in 1..Len(config.filters) : test(config.filters[i], txn) }

\* C1: the run handles each new record with the handler of the first rule, in
\* the configured order, whose test is true of the record, and with the
\* default handler exactly when no rule's test is true; the transaction it
\* collects for the record is the one that handler returns.
C1_FirstMatchingRule ==
    \A k \in 1..Len(handled) :
        LET h == handled[k]
            m == Matching(h.txn)
        IN  /\ (h.rule = 0) <=> (m = {})
            /\ h.rule = 0 => h.handler = DEFAULT_HANDLER
            /\ h.rule # 0 =>
                  /\ h.rule \in m
                  /\ \A j \in m : h.rule <= j
                  /\ h.handler = config.filters[h.rule].handler
            /\ Completed => Produced(h) \in Range(new_txns)

C1_Witness ==
    \E k \in 1..Len(handled) :
        /\ handled[k].rule = 2
        /\ Matching(handled[k].txn) = {2, 3}
        /\ Completed
        /\ handled[k].handler.cls = "Membership"

AutoFile == FileName(base.date, base.seq, "auto.beancount")
ManualFile == FileName(base.date, base.seq, "manual.beancount")

Written == op = "import" /\ status = "written"

\* C2, as claimed: in a run that writes, the transactions of the default
\* handler are in the automatic file and those of the handlers bound to a
\* rule under a name are in the manual file.
C2_DefaultToAuto ==
    Written =>
        \A k \in 1..Len(handled) :
            LET h == handled[k]
            IN  /\ h.rule = 0 => Produced(h) \in Range(files[AutoFile])
                /\ h.handler.cls \in {"Categorize", "Membership"} =>
                       Produced(h) \in Range(files[ManualFile])

\* C2, amended: in a run that is no dry run and finds a free number, a
\* transaction with the flag "?" (from the default handler, from a rule that
\* names no handler, from Membership on an amount that is not the fee) is in
\* the manual file and not in the automatic file, a transaction with the
\* flag "!" (from Categorize, from Membership on the fee) is in the automatic
\* file and not in the manual file, and the two files hold nothing else.
C2_FlagDecidesFile ==
    Written =>
        /\ \A k \in 1..Len(handled) :
              LET h == handled[k]
                  t == Produced(h)
                  falls_back == /\ h.handler.cls = "Membership"
                                /\ h.txn.amount # h.handler.monthly_cost
              IN  /\ t.flag = "?" <=> (h.handler.cls = "Handler" \/ falls_back)
                  /\ t.flag = "!" <=> ~(h.handler.cls = "Handler" \/ falls_back)
                  /\ t.flag = "?" =>
                        /\ t \in Range(files[ManualFile])
                        /\ t \notin Range(files[AutoFile])
                  /\ t.flag = "!" =>
                        /\ t \in Range(files[AutoFile])
                        /\ t \notin Range(files[ManualFile])
        /\ Len(files[AutoFile]) + Len(files[ManualFile]) = Len(handled)

C2_Witness ==
    /\ Written
    /\ \E k \in 1..Len(handled) : handled[k].rule = 0
    /\ \E k \in 1..Len(handled) : handled[k].handler.cls = "Categorize"
    /\ files[AutoFile] # <<>>
    /\ files[ManualFile] # <<>>

Occurrences(reference) ==
    { i \in 1..Len(xl_txns) : xl_txns[i].reference = reference }

\* C3, as claimed: of the records that share a reference, the run
\* classifies the first in load order.
C3_FirstDuplicateClassified ==
    op = "import" =>
        \A k \in 1..Len(handled) :
            \A i \in Occurrences(handled[k].txn.reference) :
                (\A j \in Occurrences(handled[k].txn.reference) : i <= j)
                    => handled[k].txn = xl_txns[i]

\* C3, amended: of the records that share a non-empty reference absent from
\* the ledger, the run classifies the last in load order.
C3_LastDuplicateClassified ==
    op = "import" =>
        \A k \in 1..Len(handled) :
            \A i \in Occurrences(handled[k].txn.reference) :
                (\A j \in Occurrences(handled[k].txn.reference) : j <= i)
                    => handled[k].txn = xl_txns[i]

C3_Witness ==
    /\ op = "import"
    /\ Completed
    /\ \E k \in 1..Len(handled) :
          /\ Cardinality(Occurrences(handled[k].txn.reference)) = 2
          /\ \E i \in Occurrences(handled[k].txn.reference) :
                xl_txns[i] # handled[k].txn

\* C4: a run collects exactly one transaction for each reference of the
\* extracts that the ledger does not hold and none for a reference the ledger
\* holds; the metadata "reference" of the transaction made for a record is
\* that record's reference, also under a replacement map that sets the
\* reference; no two collected transactions share a reference.
C4_OnePerNewReference ==
    [][ op' = "import" =>
          LET new == ExtractRefs(xl_txns) \ LedgerRefs(files)
              made(id) == { k \in 1..Len(new_txns') :
                              new_txns'[k].meta["reference"] = id }
          IN  /\ \A k \in 1..Len(new_txns') :
                    /\ new_txns'[k].meta["reference"] \in new
                    /\ Cardinality(made(new_txns'[k].meta["reference"])) = 1
              /\ \A k \in 1..Len(handled') :
                    LET t == handle(handled'[k].handler, [config |-> config],
                                    handled'[k].txn)
                    IN  ~Raised(t) =>
                          /\ t.meta["reference"] = handled'[k].txn.reference
                          /\ t \in Range(new_txns')
              /\ status' \in {"written", "dry_run", "no_slot", "nothing"} =>
                    /\ \A id \in new : Cardinality(made(id)) = 1
                    /\ Len(new_txns') = Cardinality(new)
      ]_vars

C4_Witness ==
    /\ op = "import"
    /\ Completed
    /\ Len(new_txns) = 2
    /\ \E k \in 1..Len(handled) :
          "reference" \in DOMAIN handled[k].handler.replacements
    /\ ExtractRefs(xl_txns) = {"A1", "B2"}

\* C7: a run in which the account lookup fails writes nothing to
\* transactions/, wherever the failing record comes among the new ones; a run
\* writes only when every new record has been classified and handled.
C7_AbortWritesNothing ==
    [][ op' = "import" =>
          /\ status' = "KeyError" => files' = files
          /\ files' # files =>
                /\ status' = "written"
                /\ Len(handled') =
                       Cardinality(ExtractRefs(xl_txns) \ LedgerRefs(files))
                /\ \A k \in 1..Len(handled') :
                       ~Raised(handle(handled'[k].handler, [config |-> config],
                                      handled'[k].txn))
      ]_vars

C7_Witness ==
    /\ op = "import"
    /\ status = "KeyError"
    /\ ~dry_run
    /\ Len(handled) = 2
    /\ Len(new_txns) = 1

\* The entries the runs have written that carry a reference.
Generated(reference) ==
    { <<n, i>> \in UNION { { <<m, j>> : j \in 1..Len(files[m]) } :
                            m \in { x \in ledger \cap DOMAIN files :
                                      x.suffix \in {"auto.beancount",
                                                    "manual.beancount"} } } :
        files[n][i].meta["reference"] = reference }

\* C10: the import run that follows a run that wrote its files, over the
\* same extracts, finds nothing new, collects no transaction and writes no
\* file; the ledger holds at most one generated transaction for a reference.
C10_Idempotent ==
    /\ [](\A reference \in ExtractRefs(xl_txns) \cup LedgerRefs(files) :
              Cardinality(Generated(reference)) <= 1)
    /\ [][ (op = "import" /\ status = "written" /\ op' = "import") =>
              /\ status' = "nothing"
              /\ new_txns' = <<>>
              /\ files' = files
              /\ ledger' = ledger
         ]_vars

C10_Witness ==
    /\ op = "import"
    /\ status = "nothing"
    /\ xl_txns # <<>>
    /\ \E n \in ledger :
          /\ n.suffix = "auto.beancount"
          /\ files[n] # <<>>
          /\ \A i \in 1..Len(files[n]) :
                files[n][i].meta["reference"] \in ExtractRefs(xl_txns)

(***************************************************************************)
(* Properties of the file numbers, under SpecSlots.                        *)
(***************************************************************************)
FreeNumbers(fs, date) ==
    (1..999) \ { n.seq : n \in { m \in DOMAIN fs : m.date = date } }

Lowest(S) == CHOOSE i \in S : \A j \in S : i <= j

\* C8: a run leaves every file that was there before it as it was; when it
\* writes, it writes the two files of the lowest number in 1..999 that no
\* file of the day has; when every number of the day is taken, it reports
\* the error and writes no file.
C8_NeverOverwrites ==
    [][ (op' = "import" /\ today' = today) =>
          \A free \in {FreeNumbers(files, today)} :
            /\ \/ files' = files
               \/ \A n \in DOMAIN files :
                     n \in DOMAIN files' /\ files'[n] = files[n]
            /\ files' # files =>
                  /\ free # {}
                  /\ base' = [date |-> today, seq |-> Lowest(free)]
                  /\ DOMAIN files' \ DOMAIN files =
                        { FileName(today, base'.seq, "auto.beancount"),
                          FileName(today, base'.seq, "manual.beancount") }
            /\ status' = "written" => files' # files
            /\ free = {} =>
                  /\ files' = files
                  /\ status' \in {"nothing", "KeyError", "dry_run", "no_slot"}
            /\ status' = "no_slot" <=>
                  /\ free = {}
                  /\ ~dry_run'
                  /\ status' \notin {"nothing", "KeyError"}
      ]_vars

C8_Witness ==
    /\ op = "import"
    /\ status = "written"
    /\ base = [date |-> 1, seq |-> 500]
    /\ FileName(1, 499, "manual.beancount") \in DOMAIN files
    /\ FileName(1, 700, "manual.beancount") \notin DOMAIN files

\* A run that finds every number of the day taken.
C8_WitnessNoSlot ==
    /\ op = "import"
    /\ status = "no_slot"
    /\ today = 1

(***************************************************************************)
(* Properties of handler.handle, under SpecHandle.                         *)
(***************************************************************************)
Returned == h_call.state = "return" /\ ~Raised(h_call.result)

RECURSIVE SumUnits(_, _, _)
SumUnits(postings, currency, i) ==
    IF i > Len(postings) THEN 0
    ELSE (IF postings[i].units.currency = currency
          THEN postings[i].units.number ELSE 0)
         + SumUnits(postings, currency, i + 1)

CounterAccounts(label) == {"Income:" \o label, "Expenses:" \o label}

\* C5: Membership.handle on a record whose amount equals the monthly fee
\* returns four postings (the two money postings against the counter-account
\* "Membership", +1 MEMBERSHIP_MONTH to Assets:Membership, -1 MEMBERSHIP_MONTH
\* to Liabilities:Members:<member>) and the tag "membership"; on any other
\* amount it returns what the default handler returns for the record: two
\* postings, no tag, the flag "?" and the counter-account "UnaccountedFunds".
C5_MembershipExactFee ==
    (h_call.state = "return" /\ h_call.self.cls = "Membership") =>
        LET self == h_call.self
            txn == h_call.txn
            r == h_call.result
        IN  IF txn.amount = self.monthly_cost
            THEN ~Raised(r) =>
                 /\ Len(r.postings) = 4
                 /\ r.postings[1].account = h_call.repo.config.accounts[
                        replace(txn, self.replacements).account]
                 /\ r.postings[2].account \in CounterAccounts("Membership")
                 /\ r.postings[3] =
                        Posting("Assets:Membership", Amount(1, "MEMBERSHIP_MONTH"))
                 /\ r.postings[4] =
                        Posting("Liabilities:Members:" \o self.member,
                                Amount(-1, "MEMBERSHIP_MONTH"))
                 /\ "membership" \in r.tags
            ELSE /\ r = handle(DEFAULT_HANDLER, h_call.repo, txn)
                 /\ Raised(r) <=> txn.account \notin DOMAIN h_call.repo.config.accounts
                 /\ ~Raised(r) =>
                    /\ Len(r.postings) = 2
                    /\ r.tags = {}
                    /\ r.flag = "?"
                    /\ r.postings[2].account \in CounterAccounts("UnaccountedFunds")
                    /\ r.postings[1].units = Amount(txn.amount, txn.currency)

C5_Witness ==
    /\ Returned
    /\ h_call.self.cls = "Membership"
    /\ h_call.txn.amount = h_call.self.monthly_cost
    /\ Len(h_call.result.postings) = 4

\* C6: the postings of every transaction a handler returns sum to zero in
\* each currency or commodity, whatever the handler, the amount and the
\* replacement map.
C6_PostingsBalance ==
    Returned =>
        \A i \in 1..Len(h_call.result.postings) :
            SumUnits(h_call.result.postings,
                     h_call.result.postings[i].units.currency, 1) = 0

C6_Witness ==
    /\ Returned
    /\ h_call.self.cls = "Membership"
    /\ "amount" \in DOMAIN h_call.self.replacements
    /\ Len(h_call.result.postings) = 4
    /\ h_call.result.postings[1].units.number < 0

(***************************************************************************)
(* Properties of filter.test, under SpecTest.                              *)
(***************************************************************************)
Succeeds(matcher, field) ==
    \/ matcher.type = "str" /\ matcher.value = field
    \/ matcher.type = "regex" /\ field \in matcher.lang

FieldCheck(field, matchers) ==
    \/ matchers = <<>>
    \/ \E i \in 1..Len(matchers) : Succeeds(matchers[i], field)

\* C9: Filter.test(record) is true exactly when the four field checks pass
\* (message, counterparty account against "account", counterparty name
\* against "name", description against "kind"); a field check passes exactly
\* when its matcher list is empty or one of its matchers succeeds; a rule
\* whose four lists are empty matches every record.
C9_TestIsConjunctionOfFieldChecks ==
    t_call.state = "return" =>
        LET self == t_call.self
            txn == t_call.txn
        IN  /\ t_call.result =
                  ( /\ FieldCheck(txn.message, self.message)
                    /\ FieldCheck(txn.counterparty_account, self.account)
                    /\ FieldCheck(txn.counterparty_name, self.name)
                    /\ FieldCheck(txn.description, self.kind) )
            /\ ( /\ self.message = <<>>
                 /\ self.account = <<>>
                 /\ self.name = <<>>
                 /\ self.kind = <<>> ) => t_call.result = TRUE

C9_Witness ==
    /\ t_call.state = "return"
    /\ t_call.result = TRUE
    /\ t_call.self.name = <<Str("b"), Regexp({"ab"})>>
    /\ t_call.self.account = <<Str("a")>>
    /\ t_call.self.kind = <<>>

====
